---- MODULE Spec2Model ----
(***************************************************************************)
(* Library synchronisation of plugin.kodi.navidrome                        *)
(* (src/lib/library_sync.py, class LibrarySync, and the remote accessors   *)
(* of src/lib/navidrome_api.py it calls).                                  *)
(*                                                                         *)
(* Text is a sequence of one-character strings, a path is a sequence of    *)
(* path components (each a text), the content root (library_path) is the   *)
(* empty path.  The filesystem is a function from the existing paths to    *)
(* an entry [kind, by, id, rev]; `by` and `id` are history fields that     *)
(* record who created the entry and for which remote id, `rev` counts how  *)
(* often the file was written (a stream URL carries a fresh random salt,   *)
(* so every write of a stream-pointer file changes its content).           *)
(*                                                                         *)
(* The module also covers the paged listings of the plugin                 *)
(* (src/default.py: router, list_albums_all, list_albums_random,           *)
(* list_songs, add_load_more_item) and the scrobbling of the background    *)
(* service (src/service.py: NavidromePlayer and the loop of                *)
(* NavidromeService.run).                                                  *)
(***************************************************************************)
EXTENDS Integers, Sequences, FiniteSets, TLC

(* ------------------------------ bounds -------------------------------- *)
\* events in one behaviour: an operation that starts (full sync, incremental
\* sync, clear), a change of the remote catalog, a request or a write that fails
\* (a request to the server, a cover-art download, the write of the sync state)
MaxEvents == 3
\* albums of the largest catalog the newest-album window is tried on
MaxAlbums == 52
\* length of the longest run of letters in a name the server sends
MaxFill == 201
\* the most artists a catalog of many artists has
MaxArtists == 25

(* ------------------------- program constants -------------------------- *)
MaxNameLen == 200
NewestWindow == 50

(* ------------------------------- text --------------------------------- *)
Reserved == {"<", ">", ":", "\"", "/", "\\", "|", "?", "*"}
Whitespace == {" ", "\t"}

\* a field the remote payload does not carry (dict.get falls back to its default)
Absent == <<"<absent>">>
\* a field that carries a number where a string is expected
NotAString == <<"<int>">>
\* a track field that carries a string where a number is expected
BadTrack == -1

UnknownArtist == <<"U", "n", "k", "n", "o", "w", "n", " ", "A", "r", "t", "i", "s", "t">>
UnknownAlbum == <<"U", "n", "k", "n", "o", "w", "n", " ", "A", "l", "b", "u", "m">>
UnknownTrack == <<"U", "n", "k", "n", "o", "w", "n", " ", "T", "r", "a", "c", "k">>
Unknown == <<"U", "n", "k", "n", "o", "w", "n">>
Dash == <<" ", "-", " ">>

\* dict.get(key, default)
Get(field, default) == IF field = Absent THEN default ELSE field

DigitChar == <<"0", "1", "2", "3", "4", "5", "6", "7", "8", "9">>

\* str(n) of a natural number
RECURSIVE Digits(_)
Digits(n) == IF n < 10 THEN <<DigitChar[n + 1]>>
             ELSE Digits(n \div 10) \o <<DigitChar[(n % 10) + 1]>>

\* f"{n:02d}"
Pad2(n) == IF n < 10 THEN <<"0">> \o Digits(n) ELSE Digits(n)

\* re.sub(r'\s+', ' ', name): the first character of every run of white space
\* becomes one space, the others of the run go
CollapseSpaces(s) ==
    LET marked == [k \in 1..Len(s) |->
                     IF s[k] \notin Whitespace THEN s[k]
                     ELSE IF k > 1 /\ s[k - 1] \in Whitespace THEN "<dropped>" ELSE " "]
    IN  SelectSeq(marked, LAMBDA c : c # "<dropped>")

\* s has a character that is no white space
Inked(s) == \E k \in 1..Len(s) : s[k] \notin Whitespace

LStrip(s) ==
    IF ~Inked(s) THEN <<>>
    ELSE SubSeq(s, CHOOSE k \in 1..Len(s) :
                      s[k] \notin Whitespace /\ \A m \in 1..(k - 1) : s[m] \in Whitespace,
                Len(s))

RStrip(s) ==
    IF ~Inked(s) THEN <<>>
    ELSE SubSeq(s, 1, CHOOSE k \in 1..Len(s) :
                         s[k] \notin Whitespace /\ \A m \in (k + 1)..Len(s) : s[m] \in Whitespace)

\* name.strip()
Strip(s) == RStrip(LStrip(s))

\* name[:n]
Truncate(s, n) == IF Len(s) > n THEN SubSeq(s, 1, n) ELSE s

\* a variant of _sanitize_filename without the fallback for an empty result
SanitizeFilenameNoFallback(name) ==
    Truncate(Strip(CollapseSpaces(SelectSeq(name, LAMBDA c : c \notin Reserved))), MaxNameLen)

\* LibrarySync._sanitize_filename (name is a string)
SanitizeFilename(name) ==
    LET a == SelectSeq(name, LAMBDA c : c \notin Reserved)
        b == CollapseSpaces(a)
        c == Strip(b)
        d == Truncate(c, MaxNameLen)
    IN  IF d = <<>> THEN Unknown ELSE d

(* ---------------------------- filesystem ------------------------------ *)
Root == <<>>

Parent(p) == SubSeq(p, 1, Len(p) - 1)

IsPrefix(p, q) == Len(p) <= Len(q) /\ SubSeq(q, 1, Len(p)) = p

\* xbmcvfs.exists
Exists(f, p) == p \in DOMAIN f

IsDir(f, p) == p \in DOMAIN f /\ f[p].kind = "dir"

Put(f, p, e) == (p :> e) @@ f

DirEntry(who, id) == [kind |-> "dir", by |-> who, id |-> id, rev |-> 1]
FileEntry(who, id) == [kind |-> "file", by |-> who, id |-> id, rev |-> 1]

\* xbmcvfs.mkdir: one level, fails when the parent is missing or the name is taken
Mkdir(f, p, id) ==
    IF Exists(f, p) \/ ~IsDir(f, Parent(p)) THEN f
    ELSE Put(f, p, DirEntry("sync", id))

\* xbmcvfs.mkdirs: every missing level
RECURSIVE Mkdirs(_, _)
Mkdirs(f, p) ==
    IF Exists(f, p) THEN f
    ELSE IF p = Root THEN Put(f, Root, DirEntry("sync", "-"))
    ELSE LET g == Mkdirs(f, Parent(p))
         IN  IF IsDir(g, Parent(p)) THEN Put(g, p, DirEntry("sync", "-")) ELSE g

\* xbmcvfs.File(path, 'w').write(...): creates or overwrites the file; nothing
\* is written when the directory is missing or the name is a directory
WriteFile(f, p, id) ==
    IF IsDir(f, Parent(p)) /\ ~IsDir(f, p)
    THEN Put(f, p, [FileEntry("sync", id) EXCEPT
                        !.rev = IF Exists(f, p) THEN f[p].rev + 1 ELSE 1])
    ELSE f

\* a variant of the removal without force: only an empty directory is removed
RmdirIfEmpty(f, p) ==
    IF \E x \in DOMAIN f : x # p /\ IsPrefix(p, x) THEN f
    ELSE [q \in DOMAIN f \ {p} |-> f[q]]

\* xbmcvfs.rmdir(path, force=True): the directory and everything below it
RmdirForce(f, p) == [q \in {x \in DOMAIN f : ~IsPrefix(p, x)} |-> f[q]]

\* dirs of xbmcvfs.listdir(path)
ListDirs(f, p) == {q \in DOMAIN f : Parent(q) = p /\ Len(q) = Len(p) + 1 /\ f[q].kind = "dir"}

StrmExt == ".strm"
NfoExt == ".nfo"

\* str.replace('.strm', '.nfo') on one path component
ReplaceInName(n) == [k \in 1..Len(n) |-> IF n[k] = StrmExt THEN NfoExt ELSE n[k]]

\* path.replace('.strm', '.nfo'): every occurrence, in every component
RECURSIVE ReplaceExt(_)
ReplaceExt(p) ==
    IF p = <<>> THEN <<>> ELSE <<ReplaceInName(Head(p))>> \o ReplaceExt(Tail(p))

ArtistNfo == <<"artist", NfoExt>>
AlbumNfo == <<"album", NfoExt>>
FolderJpg == <<"folder", ".jpg">>

\* a variant of _create_nfo_file that keeps an existing sidecar and writes the
\* new one beside it
CreateNfoFileKeepingOld(f, path, id) ==
    LET nfo_path == ReplaceExt(path)
    IN  IF Exists(f, nfo_path)
        THEN WriteFile(f, Append(Parent(nfo_path), nfo_path[Len(nfo_path)] \o <<".1">>), id)
        ELSE WriteFile(f, nfo_path, id)

\* LibrarySync._create_nfo_file: no directory is created for the sidecar
CreateNfoFile(f, path, id) == WriteFile(f, ReplaceExt(path), id)

\* a variant of _create_strm_file that keeps an existing stream-pointer file and
\* writes the new one beside it
CreateStrmFileKeepingOld(f, path, id) ==
    LET g == Mkdirs(f, Parent(path))
    IN  IF Exists(g, path)
        THEN WriteFile(g, Append(Parent(path), path[Len(path)] \o <<".1">>), id)
        ELSE WriteFile(g, path, id)

\* LibrarySync._create_strm_file: the directory is ensured, then the file written
CreateStrmFile(f, path, id) == WriteFile(Mkdirs(f, Parent(path)), path, id)

\* LibrarySync._download_cover_art: xbmcvfs.copy succeeds (ok) or not
DownloadCoverArt(f, dest, ok, id) == IF ok THEN WriteFile(f, dest, id) ELSE f

(* --------------------------- remote catalog --------------------------- *)
\* The Navidrome server: artists, albums and songs in the order the server
\* lists them (albums oldest first).
aA == [id |-> "a1", name |-> <<"A", "/", "C">>, coverArt |-> TRUE]
aB == [id |-> "a2", name |-> <<"B">>, coverArt |-> FALSE]
bL == [id |-> "b1", name |-> <<"L", " ", " ", "p">>, year |-> 7, artistId |-> "a1",
       artist |-> <<"A", "/", "C">>, coverArt |-> FALSE]
bM == [id |-> "b2", name |-> <<"M">>, year |-> 0, artistId |-> "a2",
       artist |-> <<"B">>, coverArt |-> TRUE]
bEmpty == [id |-> "b3", name |-> <<"E">>, year |-> 0, artistId |-> "a2",
           artist |-> <<"B">>, coverArt |-> FALSE]
s1 == [id |-> "s1", title |-> <<"x">>, track |-> 1, albumId |-> "b1"]
s2 == [id |-> "s2", title |-> <<"y", "?">>, track |-> 0, albumId |-> "b1"]
s4 == [id |-> "s4", title |-> <<"w">>, track |-> 12, albumId |-> "b2"]

\* two artists, the first with one album of two songs, the second without albums
CatA == [artists |-> <<aA, aB>>, albums |-> <<bL>>, songs |-> <<s1, s2>>]
\* CatA after the title of song s1 was edited on the server and an album that
\* has no songs yet was added for the second artist
CatDrift == [artists |-> <<aA, aB>>, albums |-> <<bL, bEmpty>>,
             songs |-> <<[id |-> "s1", title |-> <<"z">>, track |-> 1, albumId |-> "b1"], s2>>]
\* a catalog with an ill-typed track number and an artist without a name
CatBad == [artists |-> <<aB, [id |-> "a3", name |-> Absent, coverArt |-> FALSE]>>,
           albums |-> <<bM>>,
           songs |-> <<[id |-> "s3", title |-> <<"v">>, track |-> BadTrack, albumId |-> "b2"],
                       s4>>]

Catalogs == {CatA, CatDrift, CatBad}

\* the k-th album the server added for artist B (one song), and its song
AlbumNo(k) == [id |-> "n" \o ToString(k), name |-> <<"N">> \o Digits(k), year |-> 0,
               artistId |-> "a2", artist |-> <<"B">>, coverArt |-> FALSE]
SongNo(k) == [id |-> "t" \o ToString(k), title |-> <<"t">>, track |-> k,
              albumId |-> "n" \o ToString(k)]

\* a catalog of n albums, oldest first
BigCat(n) == [artists |-> <<aB>>, albums |-> [k \in 1..n |-> AlbumNo(k)],
              songs |-> [k \in 1..n |-> SongNo(k)]]

\* names the server may send: a run of letters, none or as many or more than
\* _sanitize_filename keeps, bare or between reserved characters and white space
Fill(n) == [k \in 1..n |-> "a"]
FillSizes == {0} \cup (MaxNameLen..MaxFill)
Names == {Fill(n) : n \in FillSizes}
             \cup {<<" ", "*", "\t">> \o Fill(n) \o <<"?", " ">> : n \in FillSizes}

\* one artist, one album, one song, all named x
NameCat(x) ==
    [artists |-> <<[id |-> "a1", name |-> x, coverArt |-> FALSE]>>,
     albums |-> <<[id |-> "b1", name |-> x, year |-> 7, artistId |-> "a1",
                   artist |-> x, coverArt |-> FALSE]>>,
     songs |-> <<[id |-> "s1", title |-> x, track |-> 1, albumId |-> "b1"]>>]

\* a catalog of n artists, the first with one album of two songs, the others
\* without albums
ManyArtists(n) ==
    [artists |-> <<aA>> \o [k \in 1..(n - 1) |->
                              [id |-> "m" \o ToString(k), name |-> <<"M">> \o Digits(k),
                               coverArt |-> FALSE]],
     albums |-> <<bL>>, songs |-> <<s1, s2>>]

\* catalog sizes around the newest-album window
WindowSizes == {1} \cup (NewestWindow..MaxAlbums)

NotFound == [found |-> FALSE, album |-> <<>>, song |-> <<>>, coverArt |-> FALSE]

RECURSIVE Reverse(_)
Reverse(s) == IF s = <<>> THEN <<>> ELSE Reverse(Tail(s)) \o <<Head(s)>>

\* NavidromeAPI.get_artists: [] when the request fails (ok = FALSE)
GetArtists(cat, ok) == IF ok THEN cat.artists ELSE <<>>

\* NavidromeAPI.get_artist: None when the request fails or the id is unknown
GetArtist(cat, artist_id, ok) ==
    IF ok /\ \E k \in 1..Len(cat.artists) : cat.artists[k].id = artist_id
    THEN [found |-> TRUE,
          album |-> SelectSeq(cat.albums, LAMBDA b : b.artistId = artist_id),
          song |-> <<>>, coverArt |-> FALSE]
    ELSE NotFound

\* NavidromeAPI.get_album: None when the request fails or the id is unknown
GetAlbum(cat, album_id, ok) ==
    IF ok /\ \E k \in 1..Len(cat.albums) : cat.albums[k].id = album_id
    THEN LET b == CHOOSE x \in {cat.albums[k] : k \in 1..Len(cat.albums)} : x.id = album_id
         IN  [found |-> TRUE, album |-> <<>>,
              song |-> SelectSeq(cat.songs, LAMBDA s : s.albumId = album_id),
              coverArt |-> b.coverArt]
    ELSE NotFound

\* a variant of get_album_list that ignores the size it is asked for
GetAlbumListUnbounded(cat, size, ok) == IF ok THEN Reverse(cat.albums) ELSE <<>>

\* NavidromeAPI.get_album_list('newest', size): the newest `size` albums, newest
\* first; [] when the request fails
GetAlbumList(cat, size, ok) ==
    IF ok THEN Truncate(Reverse(cat.albums), size) ELSE <<>>

(* ------------------- the walk of sync_full_library -------------------- *)
\* the loop over the songs of one album (full sync writes a sidecar per song,
\* incremental sync does not): the files written, the songs counted, and
\* whether an exception left the loop
RECURSIVE SyncSongs(_, _, _, _, _)
SyncSongs(f, album_path, songs, k, withNfo) ==
    IF k > Len(songs) THEN [fs |-> f, n |-> 0, raised |-> FALSE]
    ELSE LET song == songs[k]
             song_title == Get(song.title, UnknownTrack)
             track_num == song.track
         IN  IF song_title = NotAString \/ track_num = BadTrack
             THEN [fs |-> f, n |-> 0, raised |-> TRUE]
             ELSE LET safe == IF track_num # 0
                              THEN Pad2(track_num) \o Dash \o SanitizeFilename(song_title)
                              ELSE SanitizeFilename(song_title)
                      strm_path == Append(album_path, safe \o <<StrmExt>>)
                      f1 == CreateStrmFile(f, strm_path, song.id)
                      f2 == IF withNfo THEN CreateNfoFile(f1, strm_path, song.id) ELSE f1
                      rest == SyncSongs(f2, album_path, songs, k + 1, withNfo)
                  IN  [fs |-> rest.fs, n |-> rest.n + 1, raised |-> rest.raised]

\* a variant of the album folder name that leaves the year out
AlbumFolderWithoutYear(album_name, album_year) == SanitizeFilename(album_name)

\* the folder name of an album: f"{album_year} - {safe_album_name}" when the
\* year is set
AlbumFolder(album_name, album_year) ==
    IF album_year # 0 THEN Digits(album_year) \o Dash \o SanitizeFilename(album_name)
    ELSE SanitizeFilename(album_name)

\* the body of the artist loop up to the fetch of the artist's albums: folder,
\* sidecar and cover art of one artist
SyncArtistFolder(f, artist, coverOk) ==
    LET artist_name == Get(artist.name, UnknownArtist)
    IN  IF artist_name = NotAString
        THEN [fs |-> f, raised |-> TRUE, path |-> Root]
        ELSE LET artist_path == Append(Root, SanitizeFilename(artist_name))
                 f1 == IF ~Exists(f, artist_path) THEN Mkdir(f, artist_path, artist.id) ELSE f
                 f2 == CreateNfoFile(f1, Append(artist_path, ArtistNfo), artist.id)
                 f3 == IF artist.coverArt
                       THEN DownloadCoverArt(f2, Append(artist_path, FolderJpg), coverOk, artist.id)
                       ELSE f2
             IN  [fs |-> f3, raised |-> FALSE, path |-> artist_path]

\* the body of the album loop once the album's details are fetched: folder,
\* sidecar, cover art and songs of one album
SyncAlbumFolder(f, artist_path, album, details, coverOk) ==
    LET album_name == Get(album.name, UnknownAlbum)
    IN  IF album_name = NotAString
        THEN [fs |-> f, n |-> 0, raised |-> TRUE]
        ELSE LET album_path == Append(artist_path, AlbumFolder(album_name, album.year))
                 f1 == IF ~Exists(f, album_path) THEN Mkdir(f, album_path, album.id) ELSE f
                 f2 == CreateNfoFile(f1, Append(album_path, AlbumNfo), album.id)
                 f3 == IF details.coverArt
                       THEN DownloadCoverArt(f2, Append(album_path, FolderJpg), coverOk, album.id)
                       ELSE f2
             IN  SyncSongs(f3, album_path, details.song, 1, TRUE)

\* the album loop from album j on, every request answered
RECURSIVE WalkAlbums(_, _, _, _, _)
WalkAlbums(f, cat, artist_path, albums, j) ==
    IF j > Len(albums) THEN [fs |-> f, raised |-> FALSE]
    ELSE LET album_details == GetAlbum(cat, albums[j].id, TRUE)
             done == IF album_details.found
                     THEN SyncAlbumFolder(f, artist_path, albums[j], album_details, TRUE)
                     ELSE [fs |-> f, n |-> 0, raised |-> FALSE]
         IN  IF done.raised THEN [fs |-> done.fs, raised |-> TRUE]
             ELSE WalkAlbums(done.fs, cat, artist_path, albums, j + 1)

\* the artist loop over artists i..n, never cancelled, every request answered
RECURSIVE WalkArtists(_, _, _, _)
WalkArtists(f, cat, i, n) ==
    IF i > n THEN [fs |-> f, raised |-> FALSE]
    ELSE LET artist == cat.artists[i]
             head == SyncArtistFolder(f, artist, TRUE)
             artist_details == GetArtist(cat, artist.id, TRUE)
             done == IF artist_details.found
                     THEN WalkAlbums(head.fs, cat, head.path, artist_details.album, 1)
                     ELSE [fs |-> head.fs, raised |-> FALSE]
         IN  IF head.raised THEN [fs |-> head.fs, raised |-> TRUE]
             ELSE IF done.raised THEN done
             ELSE WalkArtists(done.fs, cat, i + 1, n)

\* the content root an undisturbed walk over the first n artists leaves
FullWalk(f, cat, n) == WalkArtists(f, cat, 1, n).fs

(* ------------------- the walk of sync_incremental --------------------- *)
\* a variant of the existence test that never finds the album
AlbumNeverPresent(f, album_path) == FALSE

\* "Skip if album already exists"
AlbumPresent(f, album_path) == Exists(f, album_path)

\* one pass of the loop over the albums of the newest window; `failing` are the
\* album ids whose details request fails
SyncNewestAlbum(f, cat, album, failing, coverOk) ==
    LET album_name == Get(album.name, UnknownAlbum)
        artist_name == Get(album.artist, UnknownArtist)
        details == GetAlbum(cat, album.id, album.id \notin failing)
    IN  IF ~details.found THEN [fs |-> f, n |-> 0, raised |-> FALSE]
        ELSE IF artist_name = NotAString \/ album_name = NotAString
        THEN [fs |-> f, n |-> 0, raised |-> TRUE]
        ELSE LET artist_path == Append(Root, SanitizeFilename(artist_name))
                 album_path == Append(artist_path, AlbumFolder(album_name, album.year))
             IN  IF AlbumPresent(f, album_path)
                 THEN [fs |-> f, n |-> 0, raised |-> FALSE]
                 ELSE LET f1 == IF ~Exists(f, artist_path)
                                THEN Mkdir(f, artist_path, album.artistId) ELSE f
                          f2 == IF ~Exists(f1, album_path)
                                THEN Mkdir(f1, album_path, album.id) ELSE f1
                          f3 == CreateNfoFile(f2, Append(album_path, AlbumNfo), album.id)
                          f4 == IF details.coverArt
                                THEN DownloadCoverArt(f3, Append(album_path, FolderJpg),
                                                      coverOk, album.id)
                                ELSE f3
                      IN  SyncSongs(f4, album_path, details.song, 1, FALSE)

\* the loop over albums[lo..hi] of the newest window, in order; it ends at the
\* first album that raises (the two halves are walked one after the other)
RECURSIVE SyncNewestRange(_, _, _, _, _, _, _)
SyncNewestRange(f, cat, albums, lo, hi, failing, coverOk) ==
    IF lo > hi THEN [fs |-> f, n |-> 0, raised |-> FALSE]
    ELSE IF lo = hi THEN SyncNewestAlbum(f, cat, albums[lo], failing, coverOk)
    ELSE LET mid == (lo + hi) \div 2
             first == SyncNewestRange(f, cat, albums, lo, mid, failing, coverOk)
             rest == SyncNewestRange(first.fs, cat, albums, mid + 1, hi, failing, coverOk)
         IN  IF first.raised THEN first
             ELSE [fs |-> rest.fs, n |-> first.n + rest.n, raised |-> rest.raised]

\* the loop over the albums of the newest window from album k on
SyncNewest(f, cat, albums, k, failing, coverOk) ==
    SyncNewestRange(f, cat, albums, k, Len(albums), failing, coverOk)

(* -------------------------- clear_library ----------------------------- *)
\* the loop over the directories of the content root
RECURSIVE RemoveDirs(_, _)
RemoveDirs(f, dirs) ==
    IF dirs = {} THEN f
    ELSE LET d == CHOOSE x \in dirs : TRUE
         IN  RemoveDirs(RmdirForce(f, d), dirs \ {d})

\* a variant of the removal that drops the listed directories but not what is
\* below them
ClearedFsShallow(f) ==
    IF Exists(f, Root) THEN [q \in DOMAIN f \ ListDirs(f, Root) |-> f[q]] ELSE f

\* the filesystem after clear_library's removal of the synced music
ClearedFs(f) == IF Exists(f, Root) THEN RemoveDirs(f, ListDirs(f, Root)) ELSE f

(* ------------------------------- state -------------------------------- *)
VARIABLES
    catalog,         \* the remote catalog the server answers from
    fs,              \* the filesystem below (and including) library_path
    stateFile,       \* last_sync of sync_state.json, 0 when the file is missing
    upsets,          \* how many requests and writes failed, plus how often
                     \* the remote catalog changed
    now,             \* int(time.time()); advances when an operation starts
    pc,              \* per invocation: "new", "idle", "artist", "album"
    loc,             \* per invocation: the locals of a running sync_full_library
    cancel,          \* per invocation: progress.iscanceled()
    last_sync_time,  \* per invocation: LibrarySync.last_sync_time
    hist,            \* the operations that returned, oldest first
    progress,        \* per invocation: the percentages given to progress.update
    settings,        \* the add-on settings the plugin and the service read
    listing,         \* default.py: the directory the plugin listed last
    player,          \* service.py: the fields of NavidromePlayer
    playing,         \* the item Kodi's player plays
    clock,           \* time.time() of the service
    thread,          \* service.py: where the service loop and a callback stand
    scrobbles        \* the calls of NavidromeService.scrobble, oldest first

\* the library sync (src/lib/library_sync.py)
syncVars == <<catalog, fs, stateFile, upsets, now, pc, loc, cancel, last_sync_time, hist,
              progress>>
\* the plugin (src/default.py) and the service (src/service.py)
serviceVars == <<settings, listing, player, playing, clock, thread, scrobbles>>

vars == <<syncVars, serviceVars>>

\* invocations of the add-on, each with its own LibrarySync instance
Runners == {"r1", "r2"}

NoDisk == [q \in {} |-> DirEntry("user", "-")]

UserFile == <<<<"B">>, <<"k", ".mp3">>>>

\* a content root the user already keeps a folder of their own in
UserDisk ==
    [q \in {Root, Parent(UserFile), UserFile} |->
        IF q = UserFile THEN FileEntry("user", "-") ELSE DirEntry("user", "-")]

InitialDisks == {NoDisk, UserDisk}


NoLoc == [artists |-> <<>>, i |-> 0, albums |-> <<>>, j |-> 0, artist_path |-> Root,
          processed_artists |-> 0, total_songs |-> 0,
          clean |-> TRUE, net |-> FALSE, steady |-> TRUE, cat0 |-> [artists |-> <<>>, albums |-> <<>>, songs |-> <<>>], fs0 |-> NoDisk, st0 |-> 0]

\* the record of an operation that returned: what it was, what it returned,
\* what it saw (cat0, fs0, st0), what it left (fs1, st1) and what it asked of
\* the host (scan) and showed to the user (notif)
Report(op, r, l, result, outcome, scan, notif, f1, st1) ==
    [op |-> op, by |-> r, result |-> result, outcome |-> outcome,
     clean |-> l.clean, net |-> l.net, steady |-> l.steady, cat |-> l.cat0,
     fs0 |-> l.fs0, st0 |-> l.st0, fs1 |-> f1, st1 |-> st1,
     processed |-> l.processed_artists, songs |-> l.total_songs, mid |-> l.j # 0,
     scan |-> scan, notif |-> notif]

\* 1 for a request or a write that failed
Failed(ok) == IF ok THEN 0 ELSE 1

\* the failures of one step stay within what is left of MaxEvents
Within(n) == /\ now + upsets + n <= MaxEvents
             /\ upsets' = upsets + n

\* an operation starts, and n of its requests and writes fail
Started(n) == /\ now + 1 + upsets + n <= MaxEvents
              /\ now' = now + 1
              /\ upsets' = upsets + n

\* LibrarySync._save_sync_state: the write succeeds (ok) or fails and is only logged
SaveSyncState(st, t, ok) == IF ok THEN t ELSE st

\* LibrarySync._load_sync_state
LoadSyncState(st) == st

NeverSynced == <<"Never synced">>

\* LibrarySync.get_sync_status: the text shown for invocation r
GetSyncStatus(r) ==
    IF last_sync_time[r] = 0 THEN NeverSynced
    ELSE <<"Last synced: ">> \o Digits(last_sync_time[r])

(* ------------------ the plugin and the service: values ----------------- *)
\* a setting that was never set (getSetting gives '')
Unset == -1
\* int(ADDON.getSetting('items_per_page') or '2'), then the page size it selects
ItemsPerPage(setting) ==
    <<50, 100, 200, 500, 1000>>[(IF setting = Unset THEN 2 ELSE setting) + 1]

\* the URL has no action parameter
NoAction == "<absent>"

\* no 'Load More' item; also the URL Kodi opens the add-on with
NoMore == [action |-> NoAction, offset |-> Absent]

\* nothing listed yet
NoListing == [url |-> NoMore, list |-> "none", offset |-> 0, items |-> <<>>,
              more |-> NoMore, notif |-> "none"]

\* Python's None where a track id is expected
None == "None"
\* Python's None where a time is expected
NoTime == -1
\* getTotalTime() raises
TotalTimeFails == -1

\* NavidromePlayer.__init__; `playback` is a history field: the playback
\* (counted by Kodi) that onAVStarted tracked last
NewPlayer == [current_track_id |-> None, play_start_time |-> NoTime,
              track_duration |-> 0, scrobbled |-> FALSE, playback |-> 0]

\* NavidromeAPI.get_stream_url(song_id): <server_url>/rest/stream?...&id=<song_id>
GetStreamUrl(song_id) == [stream |-> TRUE, query |-> [id |-> song_id, f |-> "json"]]

\* what Kodi can play: three songs of the server (one whose length Kodi cannot
\* tell), a music file and a video of the user
LocalSong == [file |-> [stream |-> FALSE, query |-> [f |-> "k.mp3"]], audio |-> TRUE,
              total |-> 100]
Items ==
    {[file |-> GetStreamUrl("s1"), audio |-> TRUE, total |-> 100],
     [file |-> GetStreamUrl("s4"), audio |-> TRUE, total |-> 600],
     [file |-> GetStreamUrl("s2"), audio |-> TRUE, total |-> TotalTimeFails],
     LocalSong,
     [file |-> [stream |-> FALSE, query |-> [f |-> "k.mkv"]], audio |-> FALSE, total |-> 600]}

\* Kodi plays nothing; n counts the playbacks Kodi started
Stopped == [item |-> LocalSong, on |-> FALSE, n |-> 0]

\* no decision made yet
NoDecision == [made |-> FALSE, play_time |-> 0, track_duration |-> 0,
               scrobble_threshold |-> 0, should_scrobble |-> FALSE]

\* the service loop waits, no callback runs
ThreadsAtRest == [check |-> "wait", callback |-> "none", sending |-> FALSE, ended |-> 0,
                  progress |-> NoDecision, end |-> NoDecision]

DefaultSettings == [items_per_page |-> Unset, enable_scrobbling |-> TRUE,
                    scrobble_threshold |-> 0, enable_now_playing |-> FALSE]

\* the plugin has listed nothing and the service has just started
ServiceAtRest ==
    /\ settings = DefaultSettings
    /\ listing = NoListing
    /\ player = NewPlayer
    /\ playing = Stopped
    /\ clock = 1
    /\ thread = ThreadsAtRest
    /\ scrobbles = <<>>

Init ==
    /\ catalog \in Catalogs
    /\ fs \in InitialDisks
    /\ stateFile = 0
    /\ upsets = 0
    /\ now = 0
    /\ pc = [r \in Runners |-> "new"]
    /\ loc = [r \in Runners |-> NoLoc]
    /\ cancel = [r \in Runners |-> FALSE]
    /\ last_sync_time = [r \in Runners |-> 0]
    /\ hist = <<>>
    /\ progress = [r \in Runners |-> <<>>]
    /\ ServiceAtRest

(* ------------------------------ actions ------------------------------- *)
\* LibrarySync.__init__
Construct(r) ==
    /\ pc[r] \in {"new", "idle"}
    /\ fs' = IF ~Exists(fs, Root) THEN Mkdirs(fs, Root) ELSE fs
    /\ last_sync_time' = [last_sync_time EXCEPT ![r] = LoadSyncState(stateFile)]
    /\ pc' = [pc EXCEPT ![r] = "idle"]
    /\ UNCHANGED <<catalog, stateFile, upsets, now, loc, cancel, hist>>
    /\ UNCHANGED <<progress, serviceVars>>

\* int((processed_artists / total_artists) * 100)
Percent(processed_artists, total_artists) == (processed_artists * 100) \div total_artists

\* progress.update(95, 'Scanning library...')
ScanningPercent == 95

\* sync_full_library up to the artist loop: the artists are fetched
SyncFullStart(r) ==
    /\ pc[r] = "idle"
    /\ cancel' = [cancel EXCEPT ![r] = FALSE]
    /\ \E ok \in BOOLEAN :
         /\ Started(Failed(ok))
         /\ LET artists == GetArtists(catalog, ok)
                l == [NoLoc EXCEPT !.artists = artists, !.i = 1, !.clean = ok, !.net = ~ok,
                                   !.cat0 = catalog, !.fs0 = fs, !.st0 = stateFile]
            IN  IF Len(artists) = 0
                THEN /\ hist' = Append(hist, Report("full", r, l, FALSE, "empty", "none",
                                                    "No artists found on server", fs, stateFile))
                     /\ UNCHANGED <<pc, loc>>
                ELSE /\ pc' = [pc EXCEPT ![r] = "artist"]
                     /\ loc' = [loc EXCEPT ![r] = l]
                     /\ UNCHANGED hist
    /\ progress' = [progress EXCEPT ![r] = <<0>>]
    /\ UNCHANGED <<catalog, fs, stateFile, last_sync_time>>
    /\ UNCHANGED serviceVars

\* a variant of the except clause that saves the sync state before it returns
SyncFullErrorSaving(r, l, f) ==
    /\ fs' = f
    /\ stateFile' = now
    /\ hist' = Append(hist, Report("full", r, l, FALSE, "error", "none",
                                   "Sync failed - check log", f, now))
    /\ pc' = [pc EXCEPT ![r] = "idle"]
    /\ loc' = [loc EXCEPT ![r] = NoLoc]

\* the except clause of sync_full_library
SyncFullError(r, l, f) ==
    /\ fs' = f
    /\ UNCHANGED stateFile
    /\ hist' = Append(hist, Report("full", r, l, FALSE, "error", "none",
                                   "Sync failed - check log", f, stateFile))
    /\ pc' = [pc EXCEPT ![r] = "idle"]
    /\ loc' = [loc EXCEPT ![r] = NoLoc]

\* one pass of the artist loop up to the album loop
SyncFullArtist(r) ==
    /\ pc[r] = "artist"
    /\ loc[r].i <= Len(loc[r].artists)
    /\ ~cancel[r]
    /\ LET l == loc[r]
           artist == l.artists[l.i]
       IN  \E coverOk \in (IF artist.coverArt THEN BOOLEAN ELSE {FALSE}), ok \in BOOLEAN :
             LET head == SyncArtistFolder(fs, artist, coverOk)
                 artist_details == GetArtist(catalog, artist.id, ok)
                 l1 == [l EXCEPT !.clean = l.clean /\ ok /\ (artist.coverArt => coverOk),
                                 !.net = l.net \/ ~ok]
             IN  /\ Within(Failed(ok) + (IF artist.coverArt THEN Failed(coverOk) ELSE 0))
                 /\ IF head.raised THEN SyncFullError(r, l, head.fs)
                    ELSE /\ fs' = head.fs
                         /\ UNCHANGED stateFile
                         /\ IF ~artist_details.found \/ Len(artist_details.album) = 0
                            THEN /\ loc' = [loc EXCEPT ![r] =
                                       [l1 EXCEPT !.i = l.i + 1,
                                                  !.processed_artists = l.processed_artists + 1]]
                                 /\ UNCHANGED <<pc, hist>>
                            ELSE /\ loc' = [loc EXCEPT ![r] =
                                       [l1 EXCEPT !.albums = artist_details.album, !.j = 1,
                                                  !.artist_path = head.path]]
                                 /\ pc' = [pc EXCEPT ![r] = "album"]
                                 /\ UNCHANGED hist
    /\ progress' = [progress EXCEPT ![r] =
           Append(@, Percent(loc[r].processed_artists, Len(loc[r].artists)))]
    /\ UNCHANGED <<catalog, now, cancel, last_sync_time>>
    /\ UNCHANGED serviceVars

\* one pass of the album loop; after the artist's last album the artist is counted
SyncFullAlbum(r) ==
    /\ pc[r] = "album"
    /\ LET l == loc[r]
           album == l.albums[l.j]
           last == l.j = Len(l.albums)
       IN  \E ok \in BOOLEAN :
             LET album_details == GetAlbum(catalog, album.id, ok)
             IN  \E coverOk \in (IF album_details.coverArt THEN BOOLEAN ELSE {FALSE}) :
                   LET done == IF album_details.found
                               THEN SyncAlbumFolder(fs, l.artist_path, album, album_details, coverOk)
                               ELSE [fs |-> fs, n |-> 0, raised |-> FALSE]
                       l1 == [l EXCEPT !.clean = l.clean /\ ok
                                                  /\ (album_details.coverArt => coverOk),
                                       !.net = l.net \/ ~ok,
                                       !.total_songs = l.total_songs + done.n]
                   IN  /\ Within(Failed(ok)
                                 + (IF album_details.coverArt THEN Failed(coverOk) ELSE 0))
                       /\ IF done.raised THEN SyncFullError(r, l1, done.fs)
                          ELSE /\ fs' = done.fs
                               /\ UNCHANGED <<stateFile, hist>>
                               /\ IF last
                                  THEN /\ loc' = [loc EXCEPT ![r] =
                                             [l1 EXCEPT !.albums = <<>>, !.j = 0, !.artist_path = Root,
                                                        !.i = l.i + 1,
                                                        !.processed_artists = l.processed_artists + 1]]
                                       /\ pc' = [pc EXCEPT ![r] = "artist"]
                                  ELSE /\ loc' = [loc EXCEPT ![r] = [l1 EXCEPT !.j = l.j + 1]]
                                       /\ UNCHANGED pc
    /\ UNCHANGED <<catalog, now, cancel, last_sync_time>>
    /\ UNCHANGED <<progress, serviceVars>>

\* a variant of the cancellation check that is also made inside the album loop
SyncFullCancelledAnywhere(r) ==
    /\ pc[r] \in {"artist", "album"}
    /\ pc[r] = "artist" => loc[r].i <= Len(loc[r].artists)
    /\ cancel[r]
    /\ hist' = Append(hist, Report("full", r, loc[r], FALSE, "cancelled", "none", "none",
                                   fs, stateFile))
    /\ pc' = [pc EXCEPT ![r] = "idle"]
    /\ loc' = [loc EXCEPT ![r] = NoLoc]
    /\ UNCHANGED <<catalog, fs, stateFile, upsets, now, cancel, last_sync_time>>
    /\ UNCHANGED <<progress, serviceVars>>

\* the cancellation check at the head of the artist loop
SyncFullCancelled(r) ==
    /\ pc[r] = "artist"
    /\ loc[r].i <= Len(loc[r].artists)
    /\ cancel[r]
    /\ hist' = Append(hist, Report("full", r, loc[r], FALSE, "cancelled", "none", "none",
                                   fs, stateFile))
    /\ pc' = [pc EXCEPT ![r] = "idle"]
    /\ loc' = [loc EXCEPT ![r] = NoLoc]
    /\ UNCHANGED <<catalog, fs, stateFile, upsets, now, cancel, last_sync_time>>
    /\ UNCHANGED <<progress, serviceVars>>

\* sync_full_library after the artist loop: library scan, sync state, summary
SyncFullFinish(r) ==
    /\ pc[r] = "artist"
    /\ loc[r].i > Len(loc[r].artists)
    /\ \E saveOk \in BOOLEAN :
         /\ Within(Failed(saveOk))
         /\ stateFile' = SaveSyncState(stateFile, now, saveOk)
         /\ hist' = Append(hist, Report("full", r, loc[r], TRUE, "ok", "update", "Synced",
                                        fs, stateFile'))
    /\ pc' = [pc EXCEPT ![r] = "idle"]
    /\ loc' = [loc EXCEPT ![r] = NoLoc]
    /\ progress' = [progress EXCEPT ![r] = @ \o <<ScanningPercent, 100>>]
    /\ UNCHANGED <<catalog, fs, now, cancel, last_sync_time>>
    /\ UNCHANGED serviceVars

\* the user presses Cancel in the progress dialog of a running full sync
CancelPressed(r) ==
    /\ pc[r] \in {"artist", "album"}
    /\ ~cancel[r]
    /\ cancel' = [cancel EXCEPT ![r] = TRUE]
    /\ UNCHANGED <<catalog, fs, stateFile, upsets, now, pc, loc, last_sync_time, hist>>
    /\ UNCHANGED <<progress, serviceVars>>

\* a variant of the end of sync_incremental that never asks for a library scan
ScanNever(new_songs) == "none"

\* the end of sync_incremental: UpdateLibrary when songs were added
ScanAfterIncremental(new_songs) == IF new_songs > 0 THEN "update" ELSE "none"

\* the body of sync_incremental for one outcome of each request and write
SyncIncrementalRun(r, ok, failing, coverOk, saveOk) ==
    /\ pc[r] = "idle"
    /\ LET albums == GetAlbumList(catalog, NewestWindow, ok)
           l == [NoLoc EXCEPT !.clean = ok /\ failing = {} /\ coverOk,
                              !.net = ~ok \/ failing # {},
                              !.cat0 = catalog, !.fs0 = fs, !.st0 = stateFile]
           done == SyncNewest(fs, catalog, albums, 1, failing, coverOk)
       IN  /\ Started(Failed(ok) + Cardinality(failing) + Failed(coverOk) + Failed(saveOk))
           /\ IF Len(albums) = 0
              THEN /\ hist' = Append(hist, Report("incremental", r, l, TRUE, "nothing",
                                                  "none", "none", fs, stateFile))
                   /\ UNCHANGED <<fs, stateFile>>
              ELSE IF done.raised
              THEN /\ fs' = done.fs
                   /\ hist' = Append(hist, Report("incremental", r, l, FALSE, "error",
                                                  "none", "none", done.fs, stateFile))
                   /\ UNCHANGED stateFile
              ELSE /\ fs' = done.fs
                   /\ stateFile' = SaveSyncState(stateFile, now + 1, saveOk)
                   /\ hist' = Append(hist,
                          Report("incremental", r, l, TRUE, "ok",
                                 ScanAfterIncremental(done.n),
                                 IF done.n > 0 THEN "Added" ELSE "none",
                                 done.fs, stateFile'))
    /\ UNCHANGED <<catalog, pc, loc, cancel, last_sync_time>>
    /\ UNCHANGED <<progress, serviceVars>>

\* the ids of the albums the newest window lists
WindowIds(ok) ==
    LET albums == GetAlbumList(catalog, NewestWindow, ok)
    IN  {albums[k].id : k \in 1..Len(albums)}

\* sync_incremental; the details request of any album of the window may fail
SyncIncremental(r) ==
    \E ok \in BOOLEAN, coverOk \in BOOLEAN, saveOk \in BOOLEAN :
       \E failing \in SUBSET WindowIds(ok) :
          SyncIncrementalRun(r, ok, failing, coverOk, saveOk)

\* sync_incremental over albums without cover art; no details request fails,
\* or that of the newest album does
SyncIncrementalNewest(r) ==
    \E ok \in BOOLEAN, coverOk \in {TRUE}, saveOk \in BOOLEAN :
       LET albums == GetAlbumList(catalog, NewestWindow, ok)
       IN  \E failing \in {{}} \cup {{albums[k].id} : k \in 1..(IF albums = <<>> THEN 0 ELSE 1)} :
              SyncIncrementalRun(r, ok, failing, coverOk, saveOk)

\* clear_library
ClearLibrary(r) ==
    /\ pc[r] = "idle"
    /\ Started(0)
    /\ \E confirmed \in BOOLEAN :
         LET l == [NoLoc EXCEPT !.cat0 = catalog, !.fs0 = fs, !.st0 = stateFile]
         IN  IF ~confirmed
             THEN /\ hist' = Append(hist, Report("clear", r, l, FALSE, "declined", "none",
                                                 "none", fs, stateFile))
                  /\ UNCHANGED <<fs, stateFile>>
             ELSE /\ fs' = ClearedFs(fs)
                  /\ stateFile' = 0
                  /\ hist' = Append(hist, Report("clear", r, l, TRUE, "ok", "clean",
                                                 "Library cleared", fs', 0))
    /\ UNCHANGED <<catalog, pc, loc, cancel, last_sync_time>>
    /\ UNCHANGED <<progress, serviceVars>>

\* the catalog changes on the server to one of `cats`; a sync that is running
\* saw a catalog that is not the one it goes on to read
RemoteChangeTo(cats) ==
    /\ Within(1)
    /\ catalog' \in cats
    /\ loc' = [r \in Runners |->
                 IF pc[r] \in {"artist", "album"}
                 THEN [loc[r] EXCEPT !.clean = FALSE, !.steady = FALSE] ELSE loc[r]]
    /\ UNCHANGED <<fs, stateFile, now, pc, cancel, last_sync_time, hist>>
    /\ UNCHANGED <<progress, serviceVars>>

RemoteChange == RemoteChangeTo(Catalogs \ {catalog})

\* albums are added on the server
AlbumsAdded == RemoteChangeTo({BigCat(n) : n \in {m \in WindowSizes : m > Len(catalog.albums)}})

\* the steps of a full sync
FullStep(r) ==
    \/ Construct(r)
    \/ SyncFullStart(r)
    \/ SyncFullArtist(r)
    \/ SyncFullAlbum(r)
    \/ SyncFullCancelled(r)
    \/ SyncFullFinish(r)
    \/ CancelPressed(r)

Step(r) ==
    \/ FullStep(r)
    \/ SyncIncremental(r)
    \/ ClearLibrary(r)

\* one invocation at a time
Next == Step("r1") \/ RemoteChange

Spec == Init /\ [][Next]_vars

\* two invocations of the add-on that run full syncs at once
NextConc == \E r \in Runners : FullStep(r)

\* the two invocations start on an empty content root
InitConc == Init /\ fs = NoDisk /\ catalog \in {CatA, CatBad}

SpecConc == InitConc /\ [][NextConc]_vars

\* catalogs of many albums, synced incrementally
InitWindow ==
    /\ catalog \in {BigCat(n) : n \in WindowSizes}
    /\ fs \in InitialDisks
    /\ stateFile = 0
    /\ upsets = 0
    /\ now = 0
    /\ pc = [r \in Runners |-> "new"]
    /\ loc = [r \in Runners |-> NoLoc]
    /\ cancel = [r \in Runners |-> FALSE]
    /\ last_sync_time = [r \in Runners |-> 0]
    /\ hist = <<>>
    /\ progress = [r \in Runners |-> <<>>]
    /\ ServiceAtRest

NextWindow ==
    \/ Construct("r1")
    \/ SyncIncrementalNewest("r1")
    \/ AlbumsAdded

SpecWindow == InitWindow /\ [][NextWindow]_vars

\* catalogs with names of every shape
InitNames ==
    /\ catalog \in {NameCat(x) : x \in Names}
    /\ fs = NoDisk
    /\ stateFile = 0
    /\ upsets = 0
    /\ now = 0
    /\ pc = [r \in Runners |-> "new"]
    /\ loc = [r \in Runners |-> NoLoc]
    /\ cancel = [r \in Runners |-> FALSE]
    /\ last_sync_time = [r \in Runners |-> 0]
    /\ hist = <<>>
    /\ progress = [r \in Runners |-> <<>>]
    /\ ServiceAtRest

NextNames == FullStep("r1") \/ SyncIncremental("r1")

SpecNames == InitNames /\ [][NextNames]_vars

\* catalogs of many artists, synced in full on an empty content root
InitProgress ==
    /\ catalog \in {ManyArtists(n) : n \in {1, MaxArtists - 1, MaxArtists}}
    /\ fs = NoDisk
    /\ stateFile = 0
    /\ upsets = 0
    /\ now = 0
    /\ pc = [r \in Runners |-> "new"]
    /\ loc = [r \in Runners |-> NoLoc]
    /\ cancel = [r \in Runners |-> FALSE]
    /\ last_sync_time = [r \in Runners |-> 0]
    /\ hist = <<>>
    /\ progress = [r \in Runners |-> <<>>]
    /\ ServiceAtRest

SpecProgress == InitProgress /\ [][FullStep("r1")]_vars

\* catalogs whose names have a space around the place where names are cut
InitSanitize ==
    /\ catalog \in {NameCat(x) : x \in Names}
                    \cup {NameCat(Fill(n) \o <<" ", "b">>) :
                             n \in (MaxNameLen - 2)..(MaxFill - 1)}
    /\ fs = NoDisk
    /\ stateFile = 0
    /\ upsets = 0
    /\ now = 0
    /\ pc = [r \in Runners |-> "new"]
    /\ loc = [r \in Runners |-> NoLoc]
    /\ cancel = [r \in Runners |-> FALSE]
    /\ last_sync_time = [r \in Runners |-> 0]
    /\ hist = <<>>
    /\ progress = [r \in Runners |-> <<>>]
    /\ ServiceAtRest

SpecSanitize == InitSanitize /\ [][FullStep("r1")]_vars

(* -------------------- the plugin (src/default.py) --------------------- *)
\* int(c) of one decimal digit
DigitValue(c) == CHOOSE d \in 0..9 : DigitChar[d + 1] = c

\* int(t) of a text of decimal digits
RECURSIVE ParseInt(_)
ParseInt(t) ==
    IF Len(t) = 1 THEN DigitValue(t[1])
    ELSE ParseInt(SubSeq(t, 1, Len(t) - 1)) * 10 + DigitValue(t[Len(t)])

\* add_load_more_item: the parameters of the URL of the 'Load More' item, as
\* parse_qsl gives them back
AddLoadMoreItem(action, offset) == [action |-> action, offset |-> Digits(offset)]

\* the server's answer to a request for `size` records from `offset` on; [] when
\* the request fails
PageOf(all, size, offset, ok) ==
    IF ok THEN SubSeq(all, offset + 1, IF offset + size < Len(all) THEN offset + size ELSE Len(all))
    ELSE <<>>

\* a directory without pages (a menu, or a list the model does not look into)
Menu(url, list) ==
    [url |-> url, list |-> list, offset |-> 0, items |-> <<>>, more |-> NoMore,
     notif |-> "none"]

\* the body the three paged lists share: the page is fetched and listed, with a
\* 'Load More' item after a full page
ListPage(url, action, found, offset, items_per_page, notif) ==
    IF Len(found) = 0
    THEN [url |-> url, list |-> action, offset |-> offset, items |-> <<>>, more |-> NoMore,
          notif |-> IF offset = 0 THEN notif ELSE "none"]
    ELSE [url |-> url, list |-> action, offset |-> offset,
          items |-> [k \in 1..Len(found) |-> found[k].id],
          more |-> IF Len(found) >= items_per_page
                   THEN AddLoadMoreItem(action, offset + items_per_page) ELSE NoMore,
          notif |-> "none"]

\* list_albums_all(offset)
ListAlbumsAll(url, cat, st, offset, ok) ==
    ListPage(url, "albums_all",
             PageOf(cat.albums, ItemsPerPage(st.items_per_page), offset, ok),
             offset, ItemsPerPage(st.items_per_page), "No albums found")

\* list_albums_random(offset)
ListAlbumsRandom(url, cat, st, offset, ok) ==
    ListPage(url, "albums_random",
             PageOf(cat.albums, ItemsPerPage(st.items_per_page), offset, ok),
             offset, ItemsPerPage(st.items_per_page), "No albums found")

\* list_songs(offset)
ListSongs(url, cat, st, offset, ok) ==
    ListPage(url, "songs",
             PageOf(cat.songs, ItemsPerPage(st.items_per_page), offset, ok),
             offset, ItemsPerPage(st.items_per_page), "No songs found")

\* the elif chain of router, in its order: the action a branch tests, the
\* function it calls, and whether it passes the offset of the URL on
Route(action, handler, at_offset) ==
    [action |-> action, handler |-> handler, at_offset |-> at_offset]

Routes ==
    << Route("albums_menu", "albums_menu", FALSE),
       Route("albums_all", "list_albums_all", FALSE),
       Route("albums_random", "list_albums_random", FALSE),
       Route("albums_favourites", "list_albums_favourites", FALSE),
       Route("albums_top_rated", "list_albums_top_rated", FALSE),
       Route("albums_recent", "list_albums_recent", FALSE),
       Route("albums_recently_played", "list_albums_recently_played", FALSE),
       Route("albums_most_played", "list_albums_most_played", FALSE),
       Route("artists", "list_artists", FALSE),
       Route("artist", "list_artist_albums", FALSE),
       Route("album", "list_album_tracks", FALSE),
       Route("songs", "list_songs", FALSE),
       Route("radios", "list_radios", FALSE),
       Route("playlists", "list_playlists", FALSE),
       Route("playlist", "list_playlist_tracks", FALSE),
       Route("search", "search", FALSE),
       Route("star", "star_item", FALSE),
       Route("unstar", "unstar_item", FALSE),
       Route("add_to_playlist", "add_to_playlist_dialog", FALSE),
       Route("genres", "list_genres", FALSE),
       Route("genre", "list_genre_content", FALSE),
       Route("genre_albums", "list_genre_albums", FALSE),
       Route("genre_songs", "list_genre_songs", FALSE),
       Route("albums_all", "list_albums_all", TRUE),
       Route("albums_random", "list_albums_random", TRUE),
       Route("songs", "list_songs", TRUE) >>

\* router(paramstring): the first branch whose action matches is taken; a
\* branch that does not pass the offset on leaves it at the default, 0
Router(url, cat, st, ok) ==
    LET hits == {k \in 1..Len(Routes) : Routes[k].action = url.action}
    IN  IF url.action = NoAction \/ hits = {} THEN Menu(url, "root_menu")
        ELSE LET route == Routes[CHOOSE k \in hits : \A m \in hits : k <= m]
                 offset == IF route.at_offset THEN ParseInt(Get(url.offset, <<"0">>)) ELSE 0
             IN  CASE route.handler = "list_albums_all" -> ListAlbumsAll(url, cat, st, offset, ok)
                   [] route.handler = "list_albums_random" ->
                          ListAlbumsRandom(url, cat, st, offset, ok)
                   [] route.handler = "list_songs" -> ListSongs(url, cat, st, offset, ok)
                   [] OTHER -> Menu(url, route.handler)

\* Kodi calls the plugin with the URL of the item the user selected
Select(url) ==
    /\ \E ok \in BOOLEAN : listing' = Router(url, catalog, settings, ok)
    /\ UNCHANGED <<syncVars, settings, player, playing, clock, thread, scrobbles>>

\* the user opens the add-on
OpenPlugin == Select(NoMore)

\* the user selects an item of the main menu or of the albums menu
SelectMenuItem ==
    \E action \in (IF listing.list = "root_menu"
                   THEN {"albums_menu", "artists", "genres", "songs", "radios", "playlists",
                         "search"}
                   ELSE IF listing.list = "albums_menu"
                   THEN {"albums_all", "albums_random", "albums_favourites", "albums_top_rated",
                         "albums_recent", "albums_recently_played", "albums_most_played"}
                   ELSE {}) :
        Select([action |-> action, offset |-> Absent])

\* the user selects the 'Load More' item of the page listed
SelectLoadMore ==
    /\ listing.more # NoMore
    /\ Select(listing.more)

\* the plugin over catalogs of about one page, under every page size
InitPlugin ==
    /\ catalog \in {BigCat(n) : n \in WindowSizes}
    /\ fs = NoDisk
    /\ stateFile = 0
    /\ upsets = 0
    /\ now = 0
    /\ pc = [r \in Runners |-> "new"]
    /\ loc = [r \in Runners |-> NoLoc]
    /\ cancel = [r \in Runners |-> FALSE]
    /\ last_sync_time = [r \in Runners |-> 0]
    /\ hist = <<>>
    /\ progress = [r \in Runners |-> <<>>]
    /\ settings \in {[DefaultSettings EXCEPT !.items_per_page = k] : k \in {Unset} \cup (0..4)}
    /\ listing = NoListing
    /\ player = NewPlayer
    /\ playing = Stopped
    /\ clock = 1
    /\ thread = ThreadsAtRest
    /\ scrobbles = <<>>

NextPlugin == OpenPlugin \/ SelectMenuItem \/ SelectLoadMore

SpecPlugin == InitPlugin /\ [][NextPlugin]_vars

(* -------------------- the service (src/service.py) -------------------- *)
\* plays of Kodi's player in one behaviour
MaxPlays == 2
\* the latest time.time() of a behaviour
MaxClock == 251

\* "or at least 4 minutes"
ScrobbleCap == 240
\* getSettingInt('scrobble_threshold') or 50
DefaultThreshold == 50

\* Player.isPlayingAudio()
IsPlayingAudio == playing.on /\ playing.item.audio

\* NavidromePlayer._get_navidrome_track_id: the id parameter of a URL that
\* holds 'rest/stream'
GetNavidromeTrackId(playing_file) ==
    IF ~playing_file.stream THEN None
    ELSE IF "id" \in DOMAIN playing_file.query THEN playing_file.query.id ELSE None

\* self.getTotalTime(), 0 when it raises
TrackDuration(item) == IF item.total = TotalTimeFails THEN 0 ELSE item.total

\* `if self.play_start_time` of a time
Truthy(t) == t # NoTime /\ t # 0

\* a request to the server's scrobble endpoint; the history fields say which
\* playback the player tracked, which one Kodi played and which one had ended
\* when the request was made, and the decision it was made on
Scrobble(submission, by, id, decision) ==
    [submission |-> submission, by |-> by, id |-> id, tracked |-> player.playback,
     on |-> IF playing.on THEN playing.n ELSE 0, ended |-> thread.ended,
     decision |-> decision]

\* NavidromePlayer.onAVStarted for the item Kodi started as its n-th playback
OnAVStarted(item, n) ==
    LET track_id == GetNavidromeTrackId(item.file)
    IN  IF ~item.audio \/ track_id = None
        THEN UNCHANGED <<player, scrobbles>>
        ELSE /\ player' = [current_track_id |-> track_id, play_start_time |-> clock,
                           track_duration |-> TrackDuration(item), scrobbled |-> FALSE,
                           playback |-> n]
             /\ scrobbles' = IF settings.enable_now_playing
                             THEN Append(scrobbles,
                                         [Scrobble(FALSE, "now_playing", track_id, NoDecision)
                                             EXCEPT !.tracked = n, !.on = n])
                             ELSE scrobbles

\* Kodi starts to play an item, with nothing playing or in place of the item
\* that plays (no stop or end is announced then), and announces the start
Play(item) ==
    /\ playing.n < MaxPlays
    /\ thread.callback = "none"
    /\ playing' = [item |-> item, on |-> TRUE, n |-> playing.n + 1]
    /\ OnAVStarted(item, playing.n + 1)
    /\ UNCHANGED <<syncVars, settings, listing, clock, thread>>

\* the playback stops (the user stops it, or the item ends) and Kodi announces
\* it: onPlayBackStopped or onPlayBackEnded is called
Stop ==
    /\ playing.on
    /\ thread.callback = "none"
    /\ playing' = [playing EXCEPT !.on = FALSE]
    /\ \E callback \in {"onPlayBackStopped", "onPlayBackEnded"} :
          thread' = [thread EXCEPT !.callback = callback, !.ended = playing.n]
    /\ UNCHANGED <<syncVars, settings, listing, player, clock, scrobbles>>

\* time passes, 50 or 190 seconds between two steps of the model
Tick ==
    /\ \E d \in {50, 190} :
          /\ clock + d <= MaxClock
          /\ clock' = clock + d
    /\ UNCHANGED <<syncVars, settings, listing, player, playing, thread, scrobbles>>

\* a variant of the criterion without the four-minute cap
EndShouldScrobbleUncapped(play_time, track_duration, setting) ==
    IF track_duration > 0
    THEN play_time * 100 >= track_duration * (IF setting # 0 THEN setting ELSE DefaultThreshold)
    ELSE play_time >= ScrobbleCap

\* _handle_playback_end: should_scrobble (threshold_seconds is kept times 100,
\* so that the division by 100 loses nothing)
EndShouldScrobble(play_time, track_duration, setting) ==
    LET scrobble_threshold == IF setting # 0 THEN setting ELSE DefaultThreshold
        threshold_seconds100 == IF track_duration > 0 THEN track_duration * scrobble_threshold
                                ELSE ScrobbleCap * 100
        least100 == IF threshold_seconds100 < ScrobbleCap * 100 THEN threshold_seconds100
                    ELSE ScrobbleCap * 100
    IN  play_time * 100 >= least100

\* a variant of the criterion without the four-minute cap
ProgressShouldScrobbleUncapped(play_time, track_duration, setting) ==
    IF track_duration > 0
    THEN play_time * 100 >= track_duration * (IF setting # 0 THEN setting ELSE DefaultThreshold)
    ELSE play_time >= ScrobbleCap

\* check_scrobble_progress: should_scrobble
ProgressShouldScrobble(play_time, track_duration, setting) ==
    LET scrobble_threshold == IF setting # 0 THEN setting ELSE DefaultThreshold
        threshold_seconds100 == IF track_duration > 0 THEN track_duration * scrobble_threshold
                                ELSE ScrobbleCap * 100
        least100 == IF threshold_seconds100 < ScrobbleCap * 100 THEN threshold_seconds100
                    ELSE ScrobbleCap * 100
    IN  play_time * 100 >= least100

\* the decision a handler made, and what it was made on
Decision(should_scrobble) ==
    [made |-> TRUE, play_time |-> clock - player.play_start_time,
     track_duration |-> player.track_duration,
     scrobble_threshold |-> settings.scrobble_threshold,
     should_scrobble |-> should_scrobble]

\* the last two lines of _handle_playback_end
Forgotten(p) == [p EXCEPT !.current_track_id = None, !.play_start_time = NoTime]

\* the callback returns
Returns(t) == [t EXCEPT !.callback = "none", !.sending = FALSE]

\* _handle_playback_end up to the decision to scrobble
HandlePlaybackEnd ==
    /\ thread.callback # "none"
    /\ ~thread.sending
    /\ IF player.current_track_id = None
       THEN /\ thread' = Returns(thread)
            /\ UNCHANGED player
       ELSE IF ~settings.enable_scrobbling
       THEN /\ thread' = Returns(thread)
            /\ player' = Forgotten(player)
       ELSE IF ~player.scrobbled /\ Truthy(player.play_start_time)
       THEN LET should_scrobble == EndShouldScrobble(clock - player.play_start_time,
                                                     player.track_duration,
                                                     settings.scrobble_threshold)
            IN  IF should_scrobble
                THEN /\ thread' = [thread EXCEPT !.sending = TRUE,
                                                 !.end = Decision(should_scrobble)]
                     /\ UNCHANGED player
                ELSE /\ thread' = [Returns(thread) EXCEPT !.end = Decision(should_scrobble)]
                     /\ player' = Forgotten(player)
       ELSE /\ thread' = Returns(thread)
            /\ player' = Forgotten(player)
    /\ UNCHANGED <<syncVars, settings, listing, playing, clock, scrobbles>>

\* _handle_playback_end from the call of scrobble on
HandlePlaybackEndSend ==
    /\ thread.callback # "none"
    /\ thread.sending
    /\ scrobbles' = Append(scrobbles, Scrobble(TRUE, "end", player.current_track_id, thread.end))
    /\ player' = Forgotten([player EXCEPT !.scrobbled = TRUE])
    /\ thread' = Returns(thread)
    /\ UNCHANGED <<syncVars, settings, listing, playing, clock>>

\* check_scrobble_progress, called by the service loop, up to the decision
CheckScrobbleProgress ==
    /\ thread.check = "wait"
    /\ IF \/ player.current_track_id = None \/ player.scrobbled
          \/ ~settings.enable_scrobbling
          \/ ~IsPlayingAudio
          \/ ~Truthy(player.play_start_time)
       THEN UNCHANGED thread
       ELSE LET should_scrobble == ProgressShouldScrobble(clock - player.play_start_time,
                                                          player.track_duration,
                                                          settings.scrobble_threshold)
            IN  thread' = [thread EXCEPT !.check = IF should_scrobble THEN "send" ELSE "wait",
                                         !.progress = Decision(should_scrobble)]
    /\ UNCHANGED <<syncVars, settings, listing, player, playing, clock, scrobbles>>

\* check_scrobble_progress from the call of scrobble on
CheckScrobbleProgressSend ==
    /\ thread.check = "send"
    /\ scrobbles' = Append(scrobbles,
                           Scrobble(TRUE, "progress", player.current_track_id, thread.progress))
    /\ player' = [player EXCEPT !.scrobbled = TRUE]
    /\ thread' = [thread EXCEPT !.check = "wait"]
    /\ UNCHANGED <<syncVars, settings, listing, playing, clock>>

\* the service with its settings made, over the items Kodi can play
InitService ==
    /\ catalog = CatA
    /\ fs = NoDisk
    /\ stateFile = 0
    /\ upsets = 0
    /\ now = 0
    /\ pc = [r \in Runners |-> "new"]
    /\ loc = [r \in Runners |-> NoLoc]
    /\ cancel = [r \in Runners |-> FALSE]
    /\ last_sync_time = [r \in Runners |-> 0]
    /\ hist = <<>>
    /\ progress = [r \in Runners |-> <<>>]
    /\ settings \in {[DefaultSettings EXCEPT !.enable_scrobbling = e, !.scrobble_threshold = t,
                                             !.enable_now_playing = n] :
                        e \in BOOLEAN, t \in {0, 90}, n \in BOOLEAN}
    /\ listing = NoListing
    /\ player = NewPlayer
    /\ playing = Stopped
    /\ clock = 1
    /\ thread = ThreadsAtRest
    /\ scrobbles = <<>>

NextService ==
    \/ \E item \in Items : Play(item)
    \/ Stop
    \/ Tick
    \/ HandlePlaybackEnd
    \/ HandlePlaybackEndSend
    \/ CheckScrobbleProgress
    \/ CheckScrobbleProgressSend

SpecService == InitService /\ [][NextService]_vars

(* ------------------------------ claims -------------------------------- *)
Reports == {hist[k] : k \in 1..Len(hist)}

\* pairs of operations of which the second started right where the first ended
Successive == {<<hist[k], hist[k + 1]>> : k \in 1..(Len(hist) - 1)}

\* a full sync that returned True and had every request and download answered
CleanFull(a) == a.op = "full" /\ a.result /\ a.outcome = "ok" /\ a.clean

\* a full sync that was cancelled, undisturbed up to then
CleanCancelled(a) == a.op = "full" /\ a.outcome = "cancelled" /\ a.clean

\* C1. Idempotence: of two full syncs in succession over the same remote
\* catalog, both complete and undisturbed, the second leaves the set of
\* folders and files under the content root as the first left it.
C1_Idempotent ==
    \A pair \in Successive :
        LET a == pair[1]
            b == pair[2]
        IN  (CleanFull(a) /\ CleanFull(b) /\ a.cat = b.cat /\ b.fs0 = a.fs1)
                => DOMAIN b.fs1 = DOMAIN a.fs1

\* two successive full syncs of the same catalog, the first of which wrote records
C1_Witness ==
    \E pair \in Successive :
        /\ CleanFull(pair[1]) /\ CleanFull(pair[2])
        /\ pair[1].cat = pair[2].cat
        /\ pair[2].fs0 = pair[1].fs1
        /\ DOMAIN pair[1].fs1 # DOMAIN pair[1].fs0

Walking(r) == pc[r] \in {"artist", "album"}

IsStrm(p) == p # Root /\ p[Len(p)] # <<>> /\ p[Len(p)][Len(p[Len(p)])] = StrmExt

\* the local records: artist folders, album folders, stream-pointer files
IsRecord(f, p) == p # Root /\ (f[p].kind = "dir" \/ IsStrm(p))

\* C2. Uniqueness: when the remote catalog changed only between sync runs, no
\* two local records of one kind, written by the engine, carry the same remote id.
C2_AtMostOneRecordPerId ==
    \A p, q \in DOMAIN fs :
        (/\ \A a \in Reports : a.steady
         /\ \A r \in Runners : loc[r].steady
         /\ IsRecord(fs, p) /\ IsRecord(fs, q)
         /\ fs[p].by = "sync" /\ fs[q].by = "sync"
         /\ fs[p].kind = fs[q].kind
         /\ fs[p].id # "-" /\ fs[p].id = fs[q].id)
            => p = q

\* the folders and files of a filesystem, whatever was written how often
Shape(f) == [p \in DOMAIN f |-> [f[p] EXCEPT !.rev = 0]]

\* C3. Resumability: a cancelled full sync followed by a complete one over the
\* same catalog leaves what one undisturbed walk over the whole catalog leaves.
C3_Resumable ==
    \A pair \in Successive :
        LET a == pair[1]
            b == pair[2]
        IN  (CleanCancelled(a) /\ CleanFull(b) /\ a.cat = b.cat /\ b.fs0 = a.fs1)
                => Shape(b.fs1) = Shape(FullWalk(a.fs0, a.cat, Len(a.cat.artists)))

\* a full sync cancelled after it wrote some but not all records, then a complete one
C3_Witness ==
    \E pair \in Successive :
        /\ CleanCancelled(pair[1]) /\ CleanFull(pair[2])
        /\ pair[1].cat = pair[2].cat
        /\ pair[2].fs0 = pair[1].fs1
        /\ pair[1].processed >= 1
        /\ pair[1].fs1 # pair[1].fs0
        /\ pair[2].fs1 # pair[1].fs1

\* C4. Isolation: clear_library leaves every file and folder the engine did
\* not create as it was.
C4_ClearLeavesForeignContent ==
    \A a \in Reports :
        a.op = "clear" =>
            \A p \in DOMAIN a.fs0 :
                a.fs0[p].by = "user" => (p \in DOMAIN a.fs1 /\ a.fs1[p] = a.fs0[p])

\* C5. Lock exclusivity: a full sync invoked while another invocation's sync is
\* running returns failure at once and leaves the filesystem alone.
C5_SyncRefusedWhileOtherRuns ==
    [][\A r \in Runners :
          (/\ pc[r] = "idle"
           /\ \E o \in Runners \ {r} : Walking(o)
           /\ \/ pc'[r] = "artist"
              \/ /\ Len(hist') = Len(hist) + 1
                 /\ hist'[Len(hist')].op = "full"
                 /\ hist'[Len(hist')].by = r)
            => /\ pc'[r] = "idle"
               /\ hist'[Len(hist')].result = FALSE
               /\ fs' = fs]_vars

\* C6. A cancelled full sync stopped at an artist boundary with a further
\* artist still to come, returned failure, asked for no library scan, left the
\* sync state as it found it, and (when undisturbed) left exactly what the walk
\* over the artists it had processed writes.
C6_CancelledAtArtistBoundary ==
    \A a \in Reports :
        (a.op = "full" /\ a.outcome = "cancelled") =>
            /\ a.result = FALSE
            /\ ~a.mid
            /\ a.st1 = a.st0
            /\ a.scan = "none"
            /\ a.clean => /\ a.processed < Len(a.cat.artists)
                          /\ a.fs1 = FullWalk(a.fs0, a.cat, a.processed)

\* a full sync cancelled after at least one artist was processed
C6_Witness ==
    \E a \in Reports :
        /\ CleanCancelled(a)
        /\ a.processed >= 1
        /\ a.fs1 # a.fs0

\* the step is the return of an operation of one of `ops` with result True
Returned(ops) ==
    /\ Len(hist') = Len(hist) + 1
    /\ hist'[Len(hist')].op \in ops
    /\ hist'[Len(hist')].result = TRUE

\* C7 as stated. A new last-sync timestamp is written only by a full sync that
\* completes successfully.
C7_TimestampOnlyByFullSync ==
    [][stateFile' \notin {stateFile, 0} => Returned({"full"})]_vars

\* C7 as amended. A new last-sync timestamp is written only by a full sync or
\* an incremental sync that completes successfully.
C7_TimestampOnlyBySuccessfulSync ==
    [][stateFile' \notin {stateFile, 0} => Returned({"full", "incremental"})]_vars

\* an incremental sync has written a new timestamp
C7_Witness ==
    /\ hist # <<>>
    /\ hist[Len(hist)].op = "incremental"
    /\ hist[Len(hist)].st1 # hist[Len(hist)].st0
    /\ stateFile = hist[Len(hist)].st1

\* C8. A connectivity failure during a full sync makes the run return failure
\* and leaves the last-sync timestamp as it was.
C8_ConnectivityFailureAborts ==
    \A a \in Reports :
        (a.op = "full" /\ a.net) => (a.result = FALSE /\ a.st1 = a.st0)

NameOk(name) == name # NotAString

ArtistOf(cat, album) ==
    CHOOSE x \in {cat.artists[k] : k \in 1..Len(cat.artists)} : x.id = album.artistId

AlbumOf(cat, song) ==
    CHOOSE x \in {cat.albums[k] : k \in 1..Len(cat.albums)} : x.id = song.albumId

\* a song all of whose fields, and all of whose album's and artist's fields,
\* have the types the walk expects
WellFormed(cat, song) ==
    /\ NameOk(song.title) /\ song.track # BadTrack
    /\ NameOk(AlbumOf(cat, song).name)
    /\ NameOk(ArtistOf(cat, AlbumOf(cat, song)).name)

Malformed(cat) == \E k \in 1..Len(cat.songs) : ~WellFormed(cat, cat.songs[k])

\* where the full sync puts the stream-pointer file of a song
StrmPathOf(cat, song) ==
    LET album == AlbumOf(cat, song)
        artist == ArtistOf(cat, album)
        title == SanitizeFilename(Get(song.title, UnknownTrack))
    IN  <<SanitizeFilename(Get(artist.name, UnknownArtist)),
          AlbumFolder(Get(album.name, UnknownAlbum), album.year),
          (IF song.track # 0 THEN Pad2(song.track) \o Dash \o title ELSE title) \o <<StrmExt>>>>

\* C9. A full sync that is neither cancelled nor disturbed, over a catalog with
\* a malformed record, still synchronizes every well-formed song.
C9_MalformedRecordOnlySkipped ==
    \A a \in Reports :
        (a.op = "full" /\ a.clean /\ a.outcome \in {"ok", "error"} /\ Malformed(a.cat)) =>
            \A k \in 1..Len(a.cat.songs) :
                WellFormed(a.cat, a.cat.songs[k]) => StrmPathOf(a.cat, a.cat.songs[k]) \in DOMAIN a.fs1

ArtistRecords(f) == {p \in DOMAIN f : Len(p) = 1 /\ f[p].kind = "dir"}
AlbumRecords(f) == {p \in DOMAIN f : Len(p) = 2 /\ f[p].kind = "dir"}
SongRecords(f) == {p \in DOMAIN f : IsStrm(p)}

\* C11. After a full sync that returned success the content root holds one
\* artist folder per remote artist, one album folder per remote album and one
\* stream-pointer file per remote song.
C11_MirrorsCatalog ==
    \A a \in Reports :
        (a.op = "full" /\ a.result) =>
            /\ Cardinality(ArtistRecords(a.fs1)) = Len(a.cat.artists)
            /\ Cardinality(AlbumRecords(a.fs1)) = Len(a.cat.albums)
            /\ Cardinality(SongRecords(a.fs1)) = Len(a.cat.songs)

\* a full sync that returned success, then a confirmed clear_library
SyncedThenCleared(a, b) ==
    /\ a.op = "full" /\ a.result
    /\ b.op = "clear" /\ b.outcome = "ok"
    /\ b.fs0 = a.fs1

\* C12 as stated. After a successful full sync and a confirmed clear nothing
\* the engine created remains, and the content root itself is removed.
C12_ClearRemovesRoot ==
    \A pair \in Successive :
        SyncedThenCleared(pair[1], pair[2]) =>
            /\ \A p \in DOMAIN pair[2].fs1 : pair[2].fs1[p].by # "sync"
            /\ ~Exists(pair[2].fs1, Root)

\* C12 as amended. After a successful full sync and a confirmed clear no folder
\* and no file the engine created remains below the content root; the content
\* root itself is kept.
C12_ClearEmptiesRoot ==
    \A pair \in Successive :
        SyncedThenCleared(pair[1], pair[2]) =>
            /\ IsDir(pair[2].fs1, Root)
            /\ \A p \in DOMAIN pair[2].fs1 \ {Root} :
                   pair[2].fs1[p].by # "sync" /\ pair[2].fs1[p].kind # "dir"

\* a full sync wrote stream-pointer files and a confirmed clear followed
C12_Witness ==
    \E pair \in Successive :
        /\ SyncedThenCleared(pair[1], pair[2])
        /\ CleanFull(pair[1])
        /\ SongRecords(pair[1].fs1) # {}
        /\ SongRecords(pair[2].fs1) = {}

\* C13. Once clear_library has succeeded, the persisted last-sync timestamp is
\* gone and the status the same LibrarySync instance reports is "Never synced".
C13_ClearResetsStatus ==
    (/\ hist # <<>>
     /\ hist[Len(hist)].op = "clear"
     /\ hist[Len(hist)].outcome = "ok")
        => /\ stateFile = 0
           /\ GetSyncStatus(hist[Len(hist)].by) = NeverSynced

\* where sync_incremental puts the folder of an album
IncrementalAlbumPath(album) ==
    <<SanitizeFilename(Get(album.artist, UnknownArtist)),
      AlbumFolder(Get(album.name, UnknownAlbum), album.year)>>

\* the albums (by position, oldest first) of the catalog an operation saw that
\* had no folder when it started, and those of them that had one when it returned
MissingBefore(a) ==
    {k \in 1..Len(a.cat.albums) : ~Exists(a.fs0, IncrementalAlbumPath(a.cat.albums[k]))}
CreatedBy(a) ==
    {k \in MissingBefore(a) : Exists(a.fs1, IncrementalAlbumPath(a.cat.albums[k]))}

\* an incremental sync that returned success with every request and write answered
CleanIncremental(a) == a.op = "incremental" /\ a.outcome = "ok" /\ a.clean

\* C14. An incremental sync creates album folders for the newest NewestWindow
\* (50) albums only: with 51 albums added since the last sync, one run creates
\* exactly 50 album folders and the oldest of the 51 stays without one.
C14_NewestWindowOnly ==
    \A a \in Reports :
        CleanIncremental(a) =>
            LET n == Len(a.cat.albums)
            IN  /\ CreatedBy(a) = {k \in MissingBefore(a) : k > n - NewestWindow}
                /\ Cardinality(CreatedBy(a)) <= NewestWindow
                /\ MissingBefore(a) = (n - NewestWindow)..n /\ n > NewestWindow
                      => /\ Cardinality(CreatedBy(a)) = NewestWindow
                         /\ ~Exists(a.fs1, IncrementalAlbumPath(a.cat.albums[n - NewestWindow]))

\* 51 albums were added after an earlier sync, and an incremental sync ran
C14_Witness ==
    \E a \in Reports :
        /\ CleanIncremental(a)
        /\ AlbumRecords(a.fs0) # {}
        /\ Cardinality(MissingBefore(a)) = NewestWindow + 1
        /\ Cardinality(CreatedBy(a)) = NewestWindow

\* the albums an incremental sync of the catalog looks at
Window(cat) ==
    LET albums == GetAlbumList(cat, NewestWindow, TRUE)
    IN  {albums[k] : k \in 1..Len(albums)}

SongsOf(cat, album) == {cat.songs[k] : k \in {m \in 1..Len(cat.songs) : cat.songs[m].albumId = album.id}}

\* the file name of the stream-pointer file of a song with a numeric track
StrmName(song) ==
    LET title == SanitizeFilename(Get(song.title, UnknownTrack))
    IN  (IF song.track # 0 THEN Pad2(song.track) \o Dash \o title ELSE title) \o <<StrmExt>>

\* everything at or below path p is in g as it is in f
SameBelow(f, g, p) ==
    \A q \in DOMAIN f \cup DOMAIN g :
        IsPrefix(p, q) => (q \in DOMAIN f /\ q \in DOMAIN g /\ f[q] = g[q])

\* C15. An incremental sync leaves an album of the newest window that already
\* has a folder entirely as it was, and (when every request is answered and the
\* run succeeds) gives every other album of the window its folder and the
\* stream-pointer files of all its songs.
C15_IncrementalOnlyAddsMissing ==
    \A a \in Reports :
        a.op = "incremental" =>
            \A album \in Window(a.cat) :
                LET album_path == IncrementalAlbumPath(album)
                IN  IF Exists(a.fs0, album_path)
                    THEN SameBelow(a.fs0, a.fs1, album_path)
                    ELSE CleanIncremental(a) =>
                            /\ IsDir(a.fs1, album_path)
                            /\ \A song \in SongsOf(a.cat, album) :
                                   song.track # BadTrack
                                      => Exists(a.fs1, Append(album_path, StrmName(song)))

\* one incremental sync created an album with its songs, another found the
\* album's folder and files there
C15_Witness ==
    \E a, b \in Reports :
        /\ CleanIncremental(a) /\ CleanIncremental(b)
        /\ \E album \in Window(a.cat) :
              /\ ~Exists(a.fs0, IncrementalAlbumPath(album))
              /\ SongsOf(a.cat, album) # {}
              /\ \A song \in SongsOf(a.cat, album) :
                     Exists(a.fs1, Append(IncrementalAlbumPath(album), StrmName(song)))
        /\ \E album \in Window(b.cat) :
              /\ Exists(b.fs0, IncrementalAlbumPath(album))
              /\ \E q \in DOMAIN b.fs0 : IsStrm(q) /\ IsPrefix(IncrementalAlbumPath(album), q)

\* C16. A sync run writes no stream-pointer file that is already there: every
\* stream-pointer file that existed when the run started is, when the run
\* returns, exactly as it was.
C16_ExistingStrmNotRewritten ==
    \A a \in Reports :
        a.op \in {"full", "incremental"} =>
            \A p \in DOMAIN a.fs0 :
                IsStrm(p) => (Exists(a.fs1, p) /\ a.fs1[p] = a.fs0[p])

IsSync(a) == a.op \in {"full", "incremental"}

\* the artist folders, album folders and stream-pointer files an operation added
NewRecords(a) ==
    (ArtistRecords(a.fs1) \cup AlbumRecords(a.fs1) \cup SongRecords(a.fs1))
        \ (ArtistRecords(a.fs0) \cup AlbumRecords(a.fs0) \cup SongRecords(a.fs0))

\* a clear asks for a library clean; a cancelled or failed sync asks for nothing
CleanAndNoScan(a) ==
    /\ (a.op = "clear" /\ a.outcome = "ok") => a.scan = "clean"
    /\ (IsSync(a) /\ ~a.result) => a.scan = "none"

\* C17 as stated. A successful full or incremental sync that created at least
\* one record asks for a library scan; a clear asks for a library clean; a
\* cancelled or failed sync asks for no scan.
C17_ScanAfterNewRecord ==
    \A a \in Reports :
        /\ (IsSync(a) /\ a.result /\ NewRecords(a) # {}) => a.scan = "update"
        /\ CleanAndNoScan(a)

\* C17 as amended. Every successful full sync, and a successful incremental
\* sync that wrote at least one new stream-pointer file, asks for a library
\* scan; a clear asks for a library clean; a cancelled or failed sync asks for
\* no scan.
C17_ScanAfterNewSong ==
    \A a \in Reports :
        /\ (a.op = "full" /\ a.result) => a.scan = "update"
        /\ (a.op = "incremental" /\ a.result /\ SongRecords(a.fs1) \ SongRecords(a.fs0) # {})
              => a.scan = "update"
        /\ CleanAndNoScan(a)

\* an incremental sync added songs and asked for a scan, and a sync was cancelled
\* or failed
C17_Witness ==
    /\ \E a \in Reports :
          /\ a.op = "incremental" /\ a.result
          /\ SongRecords(a.fs1) \ SongRecords(a.fs0) # {}
          /\ a.scan = "update"
    /\ \E a \in Reports : IsSync(a) /\ ~a.result

\* the notifications that tell the user a sync failed
FailureNotifications == {"Sync failed - check log", "No artists found on server"}

\* C19. A sync whose walk was aborted by an error returns failure, shows one
\* failure notification and leaves every folder and file that was there in
\* place; a sync that ran to its end shows no failure notification.
C19_AbortIsSurfaced ==
    \A a \in Reports :
        IsSync(a) =>
            /\ a.outcome = "error" =>
                  /\ a.result = FALSE
                  /\ a.notif \in FailureNotifications
                  /\ \A p \in DOMAIN a.fs0 : Exists(a.fs1, p)
            /\ a.outcome = "ok" => a.notif \notin FailureNotifications

\* what the walk puts around a sanitized name at most: "NN - " and the extension
Decoration == Len(Pad2(1) \o Dash \o <<StrmExt>>)

\* C20. Every folder and file name the engine creates under the content root
\* is free of the reserved characters, is not empty, and is the sanitized name
\* of at most MaxNameLen (200) characters, alone (artist folder) or with the
\* year or track prefix and the extension around it.
C20_CreatedNamesSanitized ==
    \A p \in DOMAIN fs :
        (p # Root /\ fs[p].by = "sync") =>
            /\ \A i \in 1..Len(p) :
                   /\ p[i] # <<>>
                   /\ \A k \in 1..Len(p[i]) : p[i][k] \notin Reserved
                   /\ Len(p[i]) <= MaxNameLen + Decoration
            /\ Len(p[1]) <= MaxNameLen

\* a song was written for a name longer than the cap that holds reserved characters
C20_Witness ==
    /\ Len(catalog.artists) = 1
    /\ Len(catalog.artists[1].name) > MaxNameLen + 1
    /\ \E k \in 1..Len(catalog.artists[1].name) : catalog.artists[1].name[k] \in Reserved
    /\ \E p \in DOMAIN fs :
          /\ IsStrm(p) /\ fs[p].by = "sync"
          /\ Len(p[1]) = MaxNameLen

\* the stream-pointer files an operation wrote
WrittenStrm(a) ==
    {p \in SongRecords(a.fs1) :
        /\ a.fs1[p].by = "sync"
        /\ p \in DOMAIN a.fs0 => a.fs1[p].rev # a.fs0[p].rev}

\* the song of the catalog a stream-pointer file was written for
SongWithId(cat, id) ==
    CHOOSE x \in {cat.songs[k] : k \in 1..Len(cat.songs)} : x.id = id

\* <SanitizedArtist>/[<Year> - ]<SanitizedAlbum>/<prefix><SanitizedTitle>.<streamExt>
LayoutPath(artist_name, album, song, prefix) ==
    <<SanitizeFilename(Get(artist_name, UnknownArtist)),
      (IF album.year # 0 THEN Digits(album.year) \o Dash ELSE <<>>)
          \o SanitizeFilename(Get(album.name, UnknownAlbum)),
      prefix \o SanitizeFilename(Get(song.title, UnknownTrack)) \o <<StrmExt>>>>

\* the artist name a sync builds the artist folder from: full sync takes the
\* name of the artist that lists the album, incremental sync the album's
\* artist field
ArtistNameFor(a, album) ==
    IF a.op = "full" THEN ArtistOf(a.cat, album).name ELSE album.artist

\* every stream-pointer file a sync wrote lies where the layout puts its song,
\* the track prefix being prefix[song]; and a full and an incremental sync that
\* wrote the file of one song of one album wrote it into the same folder
AtLayoutPath(prefix(_)) ==
    /\ \A a \in Reports :
          (IsSync(a) /\ a.steady) =>
              \A p \in WrittenStrm(a) :
                  /\ \E k \in 1..Len(a.cat.songs) : a.cat.songs[k].id = a.fs1[p].id
                  /\ LET song == SongWithId(a.cat, a.fs1[p].id)
                         album == AlbumOf(a.cat, song)
                     IN  p = LayoutPath(ArtistNameFor(a, album), album, song, prefix(song))
    /\ \A a, b \in Reports :
          (a.op = "full" /\ b.op = "incremental" /\ a.steady) =>
              \A p \in WrittenStrm(a), q \in WrittenStrm(b) :
                  (/\ a.fs1[p].id = b.fs1[q].id
                   /\ AlbumOf(a.cat, SongWithId(a.cat, a.fs1[p].id))
                          = AlbumOf(b.cat, SongWithId(b.cat, b.fs1[q].id))
                   /\ ArtistNameFor(a, AlbumOf(a.cat, SongWithId(a.cat, a.fs1[p].id)))
                          = ArtistNameFor(b, AlbumOf(b.cat, SongWithId(b.cat, b.fs1[q].id))))
                      => Parent(p) = Parent(q)

TwoDigitPrefix(song) == Pad2(song.track) \o Dash
OptionalPrefix(song) == IF song.track # 0 THEN Pad2(song.track) \o Dash ELSE <<>>

C22_SidecarsAfterSuccessfulSync ==
    \A a \in Reports :
        (IsSync(a) /\ a.result) =>
            \A p \in DOMAIN a.fs1 :
                a.fs1[p].by = "sync" =>
                    /\ IsStrm(p) => Exists(a.fs1, ReplaceExt(p))
                    /\ p \in ArtistRecords(a.fs1) => Exists(a.fs1, Append(p, ArtistNfo))
                    /\ p \in AlbumRecords(a.fs1) => Exists(a.fs1, Append(p, AlbumNfo))

\* C23. Pagination advances: the directory listed for the URL of a 'Load More'
\* item is the same list at the offset the item carries, which is not the
\* first page.
C23_LoadMoreListsNextPage ==
    listing.url.offset # Absent =>
        /\ listing.list = listing.url.action
        /\ listing.offset = ParseInt(listing.url.offset)
        /\ listing.offset > 0

\* the scrobbles proper among the requests to the scrobble endpoint
Submissions == {k \in 1..Len(scrobbles) : scrobbles[k].submission}

\* the time played is at least min(track_duration * threshold / 100, 240), with
\* 240 for a duration of 0 and 50 percent for a threshold setting of 0
PlayedEnough(d) ==
    LET percent == IF d.scrobble_threshold = 0 THEN 50 ELSE d.scrobble_threshold
    IN  IF d.track_duration = 0 THEN d.play_time >= 240
        ELSE \/ 100 * d.play_time >= d.track_duration * percent
             \/ d.play_time >= 240

\* C24. With scrobbling enabled and the tracked track not yet scrobbled, the
\* periodic check (made while audio plays) and the playback-end handler decide
\* to scrobble exactly when the time since the playback started is at least
\* min(track_duration * threshold / 100, 240) seconds, an unknown duration (0)
\* giving 240 seconds and an unset threshold (0) giving 50 percent; a scrobble
\* is sent only on such a decision, and both handlers decide alike.
C24_ScrobbleDecision ==
    /\ thread.progress.made => (thread.progress.should_scrobble <=> PlayedEnough(thread.progress))
    /\ thread.end.made => (thread.end.should_scrobble <=> PlayedEnough(thread.end))
    /\ thread.check = "send" => thread.progress.should_scrobble
    /\ thread.sending => thread.end.should_scrobble
    /\ \A k \in Submissions :
          /\ scrobbles[k].decision.made
          /\ scrobbles[k].decision.should_scrobble
          /\ PlayedEnough(scrobbles[k].decision)

\* the periodic check sent a scrobble at exactly half of a track under the
\* unset threshold; the end handler decided not to scrobble a long track that
\* had played for less than four minutes
C24_Witness ==
    /\ \E k \in Submissions :
          /\ scrobbles[k].by = "progress"
          /\ scrobbles[k].decision.scrobble_threshold = 0
          /\ scrobbles[k].decision.track_duration = 100
          /\ scrobbles[k].decision.play_time = 50
    /\ thread.end.made /\ ~thread.end.should_scrobble
    /\ thread.end.track_duration = 600
    /\ thread.end.play_time = 190

\* C25. At most one scrobble is sent per playback of a track, however the
\* periodic check and the playback callbacks interleave.
C25_OneScrobblePerPlayback ==
    \A i, j \in Submissions :
        (/\ scrobbles[i].id # None /\ scrobbles[j].id # None
         /\ scrobbles[i].tracked = scrobbles[j].tracked) => i = j

\* C26. A scrobble is sent only for the track that plays when it is sent (the
\* periodic check) or that has just ended (the end handler).
C26_ScrobbleIsForCurrentTrack ==
    \A k \in Submissions :
        /\ scrobbles[k].by = "progress" => scrobbles[k].tracked = scrobbles[k].on
        /\ scrobbles[k].by = "end" => scrobbles[k].tracked = scrobbles[k].ended

\* C27. A full sync returns True and shows its summary only if it persisted
\* its last-sync timestamp and every artist and song the summary counts has its
\* folder or stream-pointer file under the content root.
C27_SuccessMeansPersisted ==
    \A a \in Reports :
        (a.op = "full" /\ a.result) =>
            /\ a.notif = "Synced"
            /\ a.st1 # 0 /\ a.st1 # a.st0
            /\ a.processed <= Cardinality(ArtistRecords(a.fs1))
            /\ a.songs <= Cardinality(SongRecords(a.fs1))

\* C28. The status a LibrarySync instance reports agrees with the persisted
\* sync state after any of its operations: "Never synced" exactly when no
\* timestamp is persisted, and the persisted timestamp otherwise.
C28_StatusAgreesWithSyncState ==
    \A r \in Runners :
        (pc[r] = "idle" /\ \E a \in Reports : a.by = r) =>
            /\ GetSyncStatus(r) = NeverSynced <=> LoadSyncState(stateFile) = 0
            /\ LoadSyncState(stateFile) # 0 =>
                  GetSyncStatus(r) = <<"Last synced: ">> \o Digits(LoadSyncState(stateFile))

\* C29. The percentages a full sync reports to its progress sink never
\* decrease, stay within 0..100 for every number of artists, and 100 is
\* reported only as the last percentage of a run that returned True.
C29_ProgressMonotoneWithinRange ==
    \A r \in Runners :
        LET p == progress[r]
        IN  /\ \A k \in 1..Len(p) : p[k] \in 0..100
            /\ \A k \in 1..(Len(p) - 1) : p[k] <= p[k + 1]
            /\ \A k \in 1..Len(p) :
                   p[k] = 100 =>
                       /\ k = Len(p)
                       /\ pc[r] = "idle"
                       /\ \E a \in Reports : a.by = r /\ a.op = "full" /\ a.result

\* C30. _sanitize_filename is idempotent: the name it made of an artist's name
\* (the artist's folder) is returned unchanged when sanitized again, and has no
\* white space at either end.
C30_SanitizeFilenameIdempotent ==
    \A k \in 1..Len(catalog.artists) :
        LET once == SanitizeFilename(Get(catalog.artists[k].name, UnknownArtist))
        IN  Exists(fs, Append(Root, once)) =>
                /\ SanitizeFilename(once) = once
                /\ once[1] \notin Whitespace
                /\ once[Len(once)] \notin Whitespace

====
